---- MODULE Spec2Model ----
(***************************************************************************)
(* redditrss: the authenticated Reddit client (token cache, throttle,     *)
(* bounded retry), the score cache and the feed fan-out that uses them.    *)
(*                                                                         *)
(* A "task" is one get_score future of one feed_filter call.  Tasks of     *)
(* different feed_filter calls run in parallel on the tokio runtime; the   *)
(* tasks of one call are polled by try_join_all, which drops every         *)
(* unfinished sibling as soon as one of them returns Err.                  *)
(*                                                                         *)
(* An action is the code a future runs between two suspension points (an   *)
(* .await that returns Pending): a response, a lock grant, the end of a    *)
(* sleep or the result of a cache flight resumes it, and it runs until it  *)
(* suspends again or returns.                                              *)
(***************************************************************************)
EXTENDS Integers, Sequences, FiniteSets, TLC

VARIABLES
    now,          \* wall clock, in seconds
    secrets,      \* TRUE when the four REDDIT_* secrets are configured
    cLink,        \* the link of the entry of the second feed
    feedPc,       \* position of each feed_filter call
    feedRes,      \* its result
    pc,           \* position of each get_score future
    attempt,      \* loop counter of get_article_score (for _ in 0..3)
    tok,          \* the token load_article_score holds
    res,          \* result of get_score
    inbox,        \* what a moka waiter reads from the flight it waited on
    dur,          \* throttle_time argument of a pending throttle()
    wakeAt,       \* instant at which tokio::time::sleep is over
    body,         \* the body response.json() is reading
    permit,       \* the RwLock<bool> used as throttle
    token_cache,  \* RedditAuth.token_cache, one slot keyed by ()
    tokLeader,    \* the future evaluating the token_cache init future
    score_cache,  \* RssFeedProvider.score_cache
    scoreLeader,  \* per key, the future evaluating load_score
    reqs,         \* history: score requests sent by the current get_article_score
    hist,         \* history: classes of the responses the observed call received
    calls,        \* history: feed_filter calls made so far
    joined,       \* history: the get_score call once waited on another's flight
    deadline,     \* history: acquisition time + duration of the latest closer
    idResp,       \* history: the latest answer of the identity endpoint
    feedResp,     \* history: the latest answer of the feed host
    prev,         \* history: get_score ended in error in the call before
    closeAt       \* history: instant at which a pending throttle() was called

vars == <<now, secrets, cLink, feedPc, feedRes, pc, attempt, tok, res, inbox, dur,
          wakeAt, body, permit, token_cache, tokLeader, score_cache, scoreLeader,
          reqs, hist, calls, joined, deadline, idResp, feedResp, prev, closeAt>>

None == "none"

(***************************************************************************)
(* Bounds of the model and constants of the program.                       *)
(***************************************************************************)
MaxTime == 3
MaxAttempts == 3
DefaultThrottle == 1
TokenTTL == 4 * 60 * 60
ScoreTTL == 60 * 60

Feeds == {"f1", "f2"}
FeedEntries == [f1 |-> <<"a", "n", "b">>, f2 |-> <<"c">>]
\* entry.links.first(): the entry n has no link.  The entry of the second
\* feed has the link of a, or another link to the same article (k3).
Link == [a |-> "k1", n |-> None, b |-> "k2", c |-> cLink]
Tasks == {"a", "n", "b", "c"}

\* link.href as a sequence of pieces: the links k1 and k2 start with the
\* prefix that load_score removes, k3 is the link k1 without it.
Prefix == "https://www.reddit.com/"
href == [k1 |-> <<Prefix, "x">>, k2 |-> <<Prefix, "y">>, k3 |-> <<"x">>]

\* load_score, line 83: url.replace(Prefix, ""), the path get_article_score
\* is called with.
replace_prefix(url) == SelectSeq(url, LAMBDA piece : piece # Prefix)
RequestPath(t) == replace_prefix(href[Link[t]])
Keys == {"k1", "k2", "k3"}
TasksOf(f) == {FeedEntries[f][i] : i \in 1..Len(FeedEntries[f])}
FeedOf(t) == CHOOSE f \in Feeds : t \in TasksOf(f)

Tokens == {"T1", "T2"}
Scores == {3, 10}
Waits == {1, 2}

(***************************************************************************)
(* HTTP responses.                                                         *)
(***************************************************************************)
Absent == [k |-> "absent", v |-> 0]
Malformed == [k |-> "bad", v |-> 0]
Num(n) == [k |-> "num", v |-> n]

ScoreBody(s) == [k |-> "score", v |-> s]
Garbage == [k |-> "garbage", v |-> 0]
EmptyArray == [k |-> "empty_array", v |-> 0]
EmptyChildren == [k |-> "empty_children", v |-> 0]
NotItem == [k |-> "not_item", v |-> 0]
NoBody == [k |-> "none", v |-> 0]

Rsp(st, ra, u, rem, rs, b) ==
    [transport |-> FALSE, status |-> st, retry_after |-> ra, used |-> u,
     remaining |-> rem, reset |-> rs, body |-> b]
TransportFailure ==
    [transport |-> TRUE, status |-> 0, retry_after |-> Absent, used |-> Absent,
     remaining |-> Absent, reset |-> Absent, body |-> Garbage]

ScoreResponses ==
    {TransportFailure}
    \cup {Rsp(200, Absent, Absent, Absent, Absent, ScoreBody(s)) : s \in Scores}
    \cup {Rsp(200, Absent, Num(5), Num(2), Num(2), ScoreBody(s)) : s \in Scores}
    \cup {Rsp(429, Num(d), Absent, Absent, Absent, Garbage) : d \in Waits}
    \cup {Rsp(429, Num(-1), Absent, Absent, Absent, Garbage),
          Rsp(200, Absent, Absent, Num(1), Num(-1), ScoreBody(3))}
    \cup {Rsp(429, Num(1), Absent, Num(0), Absent, ScoreBody(3)),
          Rsp(429, Absent, Absent, Absent, Absent, Garbage),
          Rsp(429, Malformed, Absent, Absent, Absent, Garbage)}
    \cup {Rsp(200, Absent, Num(9), Num(r), rs, ScoreBody(3)) :
            r \in {0, 1}, rs \in {Absent, Num(2)}}
    \cup {Rsp(500, Absent, Absent, Num(0), Absent, Garbage)}
    \cup {Rsp(200, Absent, Malformed, Num(0), Absent, ScoreBody(3)),
          Rsp(200, Absent, Absent, Malformed, Absent, ScoreBody(3)),
          Rsp(200, Absent, Absent, Num(0), Malformed, ScoreBody(3))}
    \cup {Rsp(500, Absent, Absent, Absent, Absent, ScoreBody(3)),
          Rsp(404, Absent, Absent, Absent, Absent, Garbage),
          Rsp(300, Absent, Absent, Absent, Absent, ScoreBody(10)),
          Rsp(300, Absent, Absent, Absent, Absent, Garbage)}
    \cup {Rsp(200, Absent, Absent, Absent, Absent, b) :
            b \in {Garbage, EmptyArray, EmptyChildren, NotItem}}

IdResponse(tr, st, b) == [transport |-> tr, status |-> st, body |-> b]
IdResponses ==
    {IdResponse(TRUE, 0, None)}
    \cup {IdResponse(FALSE, st, b) : st \in {200, 401}, b \in Tokens \cup {None}}

is_client_error(st) == st >= 400 /\ st < 500
is_server_error(st) == st >= 500 /\ st < 600
is_success(st) == st >= 200 /\ st < 300

(***************************************************************************)
(* Results: eyre::Result<_>.  OkNone is Ok(None), the result of get_score  *)
(* for an entry without a link.                                            *)
(***************************************************************************)
NoRes == [k |-> "none", some |-> FALSE, v |-> 0, e |-> "", tok |-> None]
Ok(v) == [k |-> "ok", some |-> TRUE, v |-> v, e |-> "", tok |-> None]
OkNone == [k |-> "ok", some |-> FALSE, v |-> 0, e |-> "", tok |-> None]
Err(e) == [k |-> "err", some |-> FALSE, v |-> 0, e |-> e, tok |-> None]
TokOk(tk) == [k |-> "ok", some |-> TRUE, v |-> 0, e |-> "", tok |-> tk]

(***************************************************************************)
(* parse_number_header: Ok(None) for an absent header, Err for one that    *)
(* is not a number, Ok(Some(v)) otherwise.                                 *)
(***************************************************************************)
parse_number_header(h) ==
    [err |-> h.k = "bad", some |-> h.k = "num", v |-> h.v]

(***************************************************************************)
(* rate_limiting: what it decides from the response alone.                 *)
(*   "err"      it returns Err(e)                                          *)
(*   "throttle" it calls throttle(d) and returns Ok(true)                  *)
(*   "pass"     it returns Ok(false)                                       *)
(***************************************************************************)
RlErr(e) == [k |-> "err", d |-> 0, e |-> e]
RlThrottle(d) == [k |-> "throttle", d |-> d, e |-> ""]
RlPass == [k |-> "pass", d |-> 0, e |-> ""]

rate_limiting(r) ==
    IF r.status = 429
    THEN LET retry_after == parse_number_header(r.retry_after) IN
         IF retry_after.err THEN RlErr("header")
         ELSE IF ~retry_after.some THEN RlErr("no_retry_after")
         ELSE RlThrottle(retry_after.v)
    ELSE LET used == parse_number_header(r.used)
             remaining == parse_number_header(r.remaining)
             reset == parse_number_header(r.reset)
         IN  IF used.err \/ remaining.err \/ reset.err THEN RlErr("header")
             ELSE IF remaining.some /\ remaining.v <= 1
                  THEN RlThrottle(IF reset.some THEN reset.v ELSE DefaultThrottle)
                  ELSE RlPass

(***************************************************************************)
(* error_for_status and the extraction of the score from the body.         *)
(***************************************************************************)
error_for_status(st) == is_client_error(st) \/ is_server_error(st)

parse_score(b) ==
    IF b.k = "score" THEN Ok(b.v)
    ELSE IF b.k = "garbage" THEN Err("deserialize")
    ELSE Err("shape")

(***************************************************************************)
(* load_article_score, lines 67-75, from the response up to the read of    *)
(* the body: Err(e), "retry" = Ok(None) after throttle(d), or "body": the  *)
(* body is read and parsed (response.json().await).                        *)
(***************************************************************************)
Retry(d) == [k |-> "retry", v |-> d, e |-> "", tok |-> None]
ReadBody == [k |-> "body", v |-> 0, e |-> "", tok |-> None]

\* Variant with a mistake: an error status is retried like a rate limit.
load_outcome_retries_status(r) ==
    IF r.transport THEN Err("transport")
    ELSE LET rl == rate_limiting(r) IN
         IF rl.k = "err" THEN Err(rl.e)
         ELSE IF rl.k = "throttle" THEN Retry(rl.d)
         ELSE IF error_for_status(r.status) THEN Retry(DefaultThrottle)
         ELSE ReadBody

load_outcome(r) ==
    IF r.transport THEN Err("transport")
    ELSE LET rl == rate_limiting(r) IN
         IF rl.k = "err" THEN Err(rl.e)
         ELSE IF rl.k = "throttle" THEN Retry(rl.d)
         ELSE IF error_for_status(r.status) THEN Err("status")
         ELSE ReadBody

(***************************************************************************)
(* The free function get_token of auth.rs, from the response on.  The      *)
(* status of the response is not looked at: only the body decides.         *)
(***************************************************************************)
token_outcome(r) ==
    IF r.transport THEN Err("token")
    ELSE IF r.body = None THEN Err("token")
    ELSE TokOk(r.body)

(***************************************************************************)
(* tokio::sync::RwLock as used by check_throttle and throttle: a fair      *)
(* (FIFO, write-preferring) lock.  A caller queues; the head of the queue  *)
(* is granted as soon as the lock allows it: a reader when no writer holds *)
(* it, a writer when nobody holds it.                                      *)
(***************************************************************************)
RECURSIVE Grant(_)
Grant(p) ==
    IF p.queue = <<>> \/ p.writer # None THEN p
    ELSE LET h == Head(p.queue) IN
         IF h.kind = "r"
         THEN Grant([p EXCEPT !.readers = @ \cup {h.t}, !.queue = Tail(@)])
         ELSE IF p.readers = {}
              THEN [p EXCEPT !.writer = h.t, !.queue = Tail(@)]
              ELSE p

read(p, t) == [p EXCEPT !.queue = Append(@, [t |-> t, kind |-> "r"])]
write(p, t) == [p EXCEPT !.queue = Append(@, [t |-> t, kind |-> "w"])]
drop_read(p, t) == [p EXCEPT !.readers = @ \ {t}]
drop_write(p, t) == [p EXCEPT !.writer = IF @ = t THEN None ELSE @]

\* Dropping futures: their guards are released and their queued acquires
\* are taken out of the queue.
drop_futures(p, S) ==
    [readers |-> p.readers \ S,
     writer |-> IF p.writer \in S THEN None ELSE p.writer,
     queue |-> SelectSeq(p.queue, LAMBDA e : e.t \notin S)]

(***************************************************************************)
(* moka::future::Cache with time_to_live: an entry is read as long as      *)
(* now < insertion + ttl.                                                  *)
(***************************************************************************)
NoEntry == [some |-> FALSE, val |-> 0, at |-> 0]
Entry(v) == [some |-> TRUE, val |-> v, at |-> now]
NoToken == [val |-> None, at |-> 0]

\* Variant with a mistake: the entry is still read at the instant it expires.
TokenCached_late == token_cache.val # None /\ now <= token_cache.at + TokenTTL

TokenCached == token_cache.val # None /\ now < token_cache.at + TokenTTL

\* Variant with a mistake: the entry is still read at the instant it expires.
ScoreCached_late(k) == score_cache[k].some /\ now <= score_cache[k].at + ScoreTTL

ScoreCached(k) == score_cache[k].some /\ now < score_cache[k].at + ScoreTTL

(***************************************************************************)
(* The state of the futures as one record, so that an operation can be     *)
(* written as a change of that record followed by Finish.                  *)
(***************************************************************************)
cur ==
    [pc |-> pc, attempt |-> attempt, tok |-> tok, res |-> res, inbox |-> inbox,
     dur |-> dur, body |-> body, permit |-> permit, tokLeader |-> tokLeader,
     scoreLeader |-> scoreLeader, reqs |-> reqs, joined |-> joined]

Live(p) == p \notin {"idle", "done", "dropped"}

(***************************************************************************)
(* Apply(n, S): the futures in S are dropped, the lock grants what it can, *)
(* and the futures it grants go on: a reader sends its request, a writer   *)
(* starts its sleep, or panics with the guard in its hand when its         *)
(* throttle_time is negative (Duration::from_secs_f64).  A waiter of a     *)
(* moka flight whose leader is dropped is woken to try again               *)
(* (EnclosingFutureAborted).                                               *)
(***************************************************************************)
Apply(n, S) ==
    \E p2 \in {Grant(drop_futures(n.permit, S))} :
    \E pcN \in {[t \in Tasks |->
                  IF t \in S THEN "dropped"
                  ELSE IF n.pc[t] = "tokWait" /\ n.tokLeader \in S THEN "tokRetry"
                  ELSE IF n.pc[t] = "scoreWait" /\ n.scoreLeader[Link[t]] \in S
                       THEN "scoreRetry"
                  ELSE IF n.pc[t] = "readWait" /\ t \in p2.readers THEN "inFlight"
                  ELSE IF n.pc[t] = "writeWait" /\ p2.writer = t
                       THEN (IF n.dur[t] < 0 THEN "panic" ELSE "sleep")
                  ELSE n.pc[t]]} :
    LET newR == {t \in Tasks : n.pc[t] = "readWait" /\ pcN[t] = "inFlight"}
        newW == {t \in Tasks : n.pc[t] = "writeWait" /\ pcN[t] = "sleep"}
        gone(t) == pcN[t] \in {"dropped", "idle"}
        over(t) == pcN[t] \in {"dropped", "idle", "done"}
    IN  /\ pc' = pcN
        /\ permit' = p2
        /\ tokLeader' = IF n.tokLeader \in S THEN None ELSE n.tokLeader
        /\ scoreLeader' = [k \in Keys |->
                             IF n.scoreLeader[k] \in S THEN None
                             ELSE n.scoreLeader[k]]
        /\ attempt' = [t \in Tasks |-> IF gone(t) THEN 0 ELSE n.attempt[t]]
        /\ tok' = [t \in Tasks |-> IF over(t) THEN None ELSE n.tok[t]]
        /\ res' = [t \in Tasks |-> IF gone(t) THEN NoRes ELSE n.res[t]]
        /\ inbox' = [t \in Tasks |->
                       IF pcN[t] \in {"tokWake", "scoreWake"} THEN n.inbox[t]
                       ELSE NoRes]
        /\ dur' = [t \in Tasks |->
                     IF pcN[t] \in {"writeWait", "sleep", "panic"}
                     THEN n.dur[t] ELSE 0]
        /\ body' = [t \in Tasks |->
                      IF pcN[t] = "bodyWait" THEN n.body[t] ELSE NoBody]
        /\ wakeAt' = [t \in Tasks |->
                        IF t \in newW THEN now + n.dur[t]
                        ELSE IF pcN[t] = "sleep" THEN wakeAt[t] ELSE 0]
        /\ reqs' = [t \in Tasks |->
                      IF gone(t) THEN 0
                      ELSE IF t \in newR THEN n.reqs[t] + 1 ELSE n.reqs[t]]
        /\ joined' = [t \in Tasks |-> IF gone(t) THEN FALSE ELSE n.joined[t]]
        /\ deadline' = IF newW = {} THEN deadline
                       ELSE LET d == now + n.dur[CHOOSE t \in newW : TRUE]
                            IN  IF d > deadline THEN d ELSE deadline

(***************************************************************************)
(* The end of a flight of a cache (try_get_with): every waiter reads the   *)
(* leader's result.                                                        *)
(***************************************************************************)
ScoreWaiters(n, k) == {w \in Tasks : n.pc[w] = "scoreWait" /\ Link[w] = k}
TokenWaiters(n) == {w \in Tasks : n.pc[w] = "tokWait"}

\* The leader t of the score flight returns r from load_score; with Ok the
\* future is "done", with Err it is "failed": get_score returns the Err.
end_score_flight(n, t, r) ==
    LET W == ScoreWaiters(n, Link[t]) IN
    [n EXCEPT !.pc = [x \in Tasks |->
                        IF x = t THEN (IF r.k = "ok" THEN "done" ELSE "failed")
                        ELSE IF x \in W THEN "scoreWake" ELSE @[x]],
              !.inbox = [x \in Tasks |-> IF x \in W THEN r ELSE @[x]],
              !.res[t] = r,
              !.scoreLeader[Link[t]] = None]

end_token_flight(n, r) ==
    LET W == TokenWaiters(n) IN
    [n EXCEPT !.pc = [x \in Tasks |-> IF x \in W THEN "tokWake" ELSE @[x]],
              !.inbox = [x \in Tasks |-> IF x \in W THEN r ELSE @[x]],
              !.tokLeader = None]

(***************************************************************************)
(* check_throttle: permit.read().await, then (once granted) the request.   *)
(***************************************************************************)
check_throttle(n, t) ==
    [n EXCEPT !.pc[t] = "readWait", !.permit = read(@, t)]

(***************************************************************************)
(* throttle(d): permit.write().await, then (once granted) the sleep.       *)
(***************************************************************************)
throttle(n, t, d) ==
    [n EXCEPT !.pc[t] = "writeWait", !.dur[t] = d, !.permit = write(@, t)]

(***************************************************************************)
(* RedditAuth::get_token as load_article_score calls it on line 53:        *)
(* token_cache.try_get_with((), get_token(client, secrets)).  A cached     *)
(* token is returned; a flight in progress is waited on; otherwise this    *)
(* future leads the flight: without the secrets the init future fails at   *)
(* once, with them it sends the request to the identity endpoint.          *)
(***************************************************************************)
\* Variant with a mistake: a flight in progress is not joined.
load_article_score_no_flight(n, t) ==
    IF TokenCached
    THEN check_throttle([n EXCEPT !.tok[t] = token_cache.val], t)
    ELSE IF ~secrets THEN end_score_flight(n, t, Err("token"))
    ELSE [n EXCEPT !.pc[t] = "tokFetch", !.tokLeader = t]

load_article_score(n, t) ==
    IF TokenCached
    THEN check_throttle([n EXCEPT !.tok[t] = token_cache.val], t)
    ELSE IF n.tokLeader # None THEN [n EXCEPT !.pc[t] = "tokWait"]
    ELSE IF ~secrets THEN end_score_flight(n, t, Err("token"))
    ELSE [n EXCEPT !.pc[t] = "tokFetch", !.tokLeader = t]

(***************************************************************************)
(* get_article_score: the loop for _ in 0..3.                              *)
(***************************************************************************)
\* after an attempt that returned Ok(None)
next_attempt(n, t) ==
    IF n.attempt[t] + 1 >= MaxAttempts
    THEN end_score_flight([n EXCEPT !.attempt[t] = @ + 1], t, Err("retries"))
    ELSE load_article_score([n EXCEPT !.attempt[t] = @ + 1], t)

get_article_score(n, t) ==
    load_article_score([n EXCEPT !.attempt[t] = 0, !.reqs[t] = 0], t)

(***************************************************************************)
(* get_score: Ok(None) without a link, else                                *)
(* score_cache.try_get_with(url, load_score(url)).                         *)
(***************************************************************************)
\* Variant with a mistake: an entry without a link is an error.
get_score_requires_link(n, t) ==
    LET k == Link[t] IN
    IF k = None
    THEN [n EXCEPT !.pc[t] = "failed", !.res[t] = Err("link")]
    ELSE IF ScoreCached(k)
    THEN [n EXCEPT !.pc[t] = "done", !.res[t] = Ok(score_cache[k].val)]
    ELSE IF n.scoreLeader[k] # None
    THEN [n EXCEPT !.pc[t] = "scoreWait", !.joined[t] = TRUE]
    ELSE get_article_score([n EXCEPT !.scoreLeader[k] = t], t)

get_score(n, t) ==
    LET k == Link[t] IN
    IF k = None
    THEN [n EXCEPT !.pc[t] = "done", !.res[t] = OkNone]
    ELSE IF ScoreCached(k)
    THEN [n EXCEPT !.pc[t] = "done", !.res[t] = Ok(score_cache[k].val)]
    ELSE IF n.scoreLeader[k] # None
    THEN [n EXCEPT !.pc[t] = "scoreWait", !.joined[t] = TRUE]
    ELSE get_article_score([n EXCEPT !.scoreLeader[k] = t], t)

(***************************************************************************)
(* try_join_all over the get_score futures of one feed_filter call, and    *)
(* the end of feed_filter.  The first Err ends the call and drops the      *)
(* futures that are not finished; when all are done the feed is filtered.  *)
(***************************************************************************)
Failed(n) == {t \in Tasks : n.pc[t] = "failed"}

Dropped(n) ==
    {s \in Tasks : /\ Live(n.pc[s])
                   /\ n.pc[s] # "failed"
                   /\ \E t \in Failed(n) : FeedOf(t) = FeedOf(s)}

\* Variant with a mistake: the scores that were fetched are used although a
\* lookup failed.
Finish_partial(n) ==
    \E m \in {n} :
    /\ Apply([m EXCEPT !.pc = [t \in Tasks |->
                                 IF t \in Failed(m) THEN "done" ELSE @[t]]],
             Dropped(m))
    /\ feedPc' = [f \in Feeds |->
                    IF feedPc[f] = "joining"
                       /\ \A t \in TasksOf(f) : ~Live(pc'[t])
                    THEN "done" ELSE feedPc[f]]
    /\ feedRes' = [f \in Feeds |->
                     IF feedPc[f] = "joining" /\ feedPc'[f] = "done"
                     THEN (IF \E t \in TasksOf(f) : res'[t].k = "ok" /\ res'[t].some
                           THEN "ok" ELSE "err")
                     ELSE feedRes[f]]

Finish(n) ==
    \E m \in {n} :
    /\ Apply([m EXCEPT !.pc = [t \in Tasks |->
                                 IF t \in Failed(m) THEN "done" ELSE @[t]]],
             Dropped(m))
    /\ feedPc' = [f \in Feeds |->
                    IF feedPc[f] = "joining"
                       /\ \A t \in TasksOf(f) : ~Live(pc'[t])
                    THEN "done" ELSE feedPc[f]]
    /\ feedRes' = [f \in Feeds |->
                     IF feedPc[f] = "joining" /\ feedPc'[f] = "done"
                     THEN (IF \A t \in TasksOf(f) : res'[t].k = "ok"
                           THEN "ok" ELSE "err")
                     ELSE feedRes[f]]

\* The first poll of try_join_all polls the futures in the order of the
\* entries, and stops at the first that returns Err.
RECURSIVE poll_all(_, _)
poll_all(n, ts) ==
    IF ts = <<>> \/ Failed(n) # {} THEN n
    ELSE poll_all(get_score(n, Head(ts)), Tail(ts))

(***************************************************************************)
(* History only: the class of a score response, in the words of the        *)
(* specification, the score its body carries (0 when it carries none), the *)
(* wait it asks for (0 when it asks for none), whether its status is 429,  *)
(* whether it is another status with a remaining quota of at most 1, and   *)
(* its reset header.                                                       *)
(***************************************************************************)
RespClass(r) ==
    IF r.transport THEN "transport"
    ELSE IF r.status = 429
         THEN (IF r.retry_after.k = "num" THEN "hard" ELSE "badheader")
    ELSE IF "bad" \in {r.used.k, r.remaining.k, r.reset.k} THEN "badheader"
    ELSE IF r.remaining.k = "num" /\ r.remaining.v <= 1 THEN "soft"
    ELSE IF is_client_error(r.status) \/ is_server_error(r.status) THEN "errstatus"
    ELSE IF ~is_success(r.status) THEN "otherstatus"
    ELSE IF r.body.k = "score" THEN "valid"
    ELSE "malformed"

Seen(r) ==
    [c |-> RespClass(r),
     v |-> IF r.body.k = "score" THEN r.body.v ELSE 0,
     d |-> IF r.transport \/ rate_limiting(r).k # "throttle" THEN 0
           ELSE rate_limiting(r).d,
     s429 |-> ~r.transport /\ r.status = 429,
     low |-> /\ ~r.transport /\ r.status # 429
             /\ r.remaining.k = "num" /\ r.remaining.v <= 1,
     reset |-> r.reset]

(***************************************************************************)
(* Responses of the feed host and the parse of the document.               *)
(***************************************************************************)
FeedResponse(tr, st, parses) == [transport |-> tr, status |-> st, parses |-> parses]
FeedResponses ==
    {FeedResponse(TRUE, 0, FALSE)}
    \cup {FeedResponse(FALSE, st, ps) : st \in {200, 404, 500}, ps \in BOOLEAN}

\* Variant with a mistake: only a server error fails the call.
fetch_feed_fails_5xx(r) ==
    r.transport \/ is_server_error(r.status)

fetch_feed_fails(r) ==
    r.transport \/ is_client_error(r.status) \/ is_server_error(r.status)

(***************************************************************************)
(* feed_filter, lines 50-58: the scores try_join_all returns are in the    *)
(* order of the entries; each entry is zipped with its score and kept when *)
(* the score is Some(s) with s >= min_score.  The result is the sequence   *)
(* of the entries of the document.                                         *)
(***************************************************************************)
MinScores == {0, 3, 4, 10, 11}

scores(f) == [i \in 1..Len(FeedEntries[f]) |-> res[FeedEntries[f][i]]]

RECURSIVE filter_map_gt(_, _, _)
filter_map_gt(es, ss, min) ==
    IF es = <<>> THEN <<>>
    ELSE LET rest == filter_map_gt(Tail(es), Tail(ss), min) IN
         IF Head(ss).some /\ Head(ss).v > min THEN <<Head(es)>> \o rest ELSE rest

RECURSIVE filter_map(_, _, _)
filter_map(es, ss, min) ==
    IF es = <<>> THEN <<>>
    ELSE LET rest == filter_map(Tail(es), Tail(ss), min) IN
         IF Head(ss).some /\ Head(ss).v >= min THEN <<Head(es)>> \o rest ELSE rest

\* Variant with a mistake: an entry whose score equals min_score is dropped.
feed_filter_gt(f, min) == filter_map_gt(FeedEntries[f], scores(f), min)

feed_filter(f, min) == filter_map(FeedEntries[f], scores(f), min)

(***************************************************************************)
(* subreddit_rss, lines 63-72: the status of the HTTP response for a       *)
(* result of feed_filter (0: the handler has not returned).                *)
(***************************************************************************)
subreddit_rss(r) ==
    IF r = "ok" THEN 200
    ELSE IF r \in {"err", "err_feed"} THEN 500
    ELSE 0

(***************************************************************************)
(* Init: the state after ApplicationState::new.                            *)
(***************************************************************************)
Init ==
    /\ now = 0
    /\ secrets \in BOOLEAN
    /\ cLink \in {"k1", "k3"}
    /\ feedPc = [f \in Feeds |-> "idle"]
    /\ feedRes = [f \in Feeds |-> "none"]
    /\ pc = [t \in Tasks |-> "idle"]
    /\ attempt = [t \in Tasks |-> 0]
    /\ tok = [t \in Tasks |-> None]
    /\ res = [t \in Tasks |-> NoRes]
    /\ inbox = [t \in Tasks |-> NoRes]
    /\ dur = [t \in Tasks |-> 0]
    /\ wakeAt = [t \in Tasks |-> 0]
    /\ body = [t \in Tasks |-> NoBody]
    /\ permit = [readers |-> {}, writer |-> None, queue |-> <<>>]
    /\ token_cache = NoToken
    /\ tokLeader = None
    /\ score_cache = [k \in Keys |-> NoEntry]
    /\ scoreLeader = [k \in Keys |-> None]
    /\ reqs = [t \in Tasks |-> 0]
    /\ hist = <<>>
    /\ calls = 0
    /\ joined = [t \in Tasks |-> FALSE]
    /\ deadline = 0
    /\ idResp = IdResponse(FALSE, 0, None)
    /\ feedResp = FeedResponse(FALSE, 0, FALSE)
    /\ prev = FALSE
    /\ closeAt = [t \in Tasks |-> 0]

futureVars == <<pc, attempt, tok, res, inbox, dur, wakeAt, body, permit, tokLeader,
                scoreLeader, reqs, joined, deadline>>

(***************************************************************************)
(* feed_filter.                                                            *)
(***************************************************************************)
\* subreddit_rss calls feed_filter, which sends the feed request.
FeedFilter(f) ==
    /\ feedPc[f] \in {"idle", "done"}
    /\ feedPc' = [feedPc EXCEPT ![f] = "fetching"]
    /\ feedRes' = [feedRes EXCEPT ![f] = "none"]
    /\ calls' = calls + 1
    /\ Apply([cur EXCEPT !.pc = [t \in Tasks |->
                                   IF t \in TasksOf(f) THEN "idle" ELSE @[t]]], {})
    /\ UNCHANGED <<now, secrets, cLink, token_cache, score_cache>>

\* fetch_feed returns.  On success the document is parsed and try_join_all
\* polls one get_score future per entry.
FetchFeedDone(f, r) ==
    /\ feedPc[f] = "fetching"
    /\ IF fetch_feed_fails(r) \/ ~r.parses
       THEN /\ feedPc' = [feedPc EXCEPT ![f] = "done"]
            /\ feedRes' = [feedRes EXCEPT ![f] = "err_feed"]
            /\ UNCHANGED futureVars
       ELSE \E n \in {poll_all(cur, FeedEntries[f])} :
            /\ Apply([n EXCEPT !.pc = [t \in Tasks |->
                                         IF t \in Failed(n) THEN "done" ELSE @[t]]],
                     Dropped(n))
            /\ feedPc' = [feedPc EXCEPT ![f] =
                            IF \A t \in TasksOf(f) : ~Live(pc'[t])
                            THEN "done" ELSE "joining"]
            /\ feedRes' = [feedRes EXCEPT ![f] =
                             IF feedPc'[f] # "done" THEN "none"
                             ELSE IF \A t \in TasksOf(f) : res'[t].k = "ok"
                                  THEN "ok" ELSE "err"]
    /\ UNCHANGED <<now, secrets, cLink, token_cache, score_cache, calls>>

(***************************************************************************)
(* Futures woken by a cache.                                               *)
(***************************************************************************)
\* A waiter of the score cache whose leader was dropped calls again.
ScoreRetry(t) ==
    /\ pc[t] = "scoreRetry"
    /\ Finish(get_score(cur, t))
    /\ UNCHANGED <<now, secrets, cLink, token_cache, score_cache, calls>>

\* A waiter of the score cache reads the result of the flight it waited on.
ScoreWake(t) ==
    /\ pc[t] = "scoreWake"
    /\ Finish([cur EXCEPT !.pc[t] = IF inbox[t].k = "ok" THEN "done" ELSE "failed",
                          !.res[t] = inbox[t]])
    /\ UNCHANGED <<now, secrets, cLink, token_cache, score_cache, calls>>

\* A waiter of the token cache whose leader was dropped calls again.  No
\* specification below takes this step: a leader of the token flight is
\* never dropped there (LockOK), because no sibling can fail before the
\* token is there.
TokenRetry(t) ==
    /\ pc[t] = "tokRetry"
    /\ Finish(load_article_score(cur, t))
    /\ UNCHANGED <<now, secrets, cLink, token_cache, score_cache, calls>>

\* A waiter of the token cache reads the result of the flight it waited on:
\* with a token it goes on to check_throttle, with Err load_score fails.
TokenWake(t) ==
    /\ pc[t] = "tokWake"
    /\ Finish(IF inbox[t].k = "ok"
              THEN check_throttle([cur EXCEPT !.tok[t] = inbox[t].tok], t)
              ELSE end_score_flight(cur, t, Err("token")))
    /\ UNCHANGED <<now, secrets, cLink, token_cache, score_cache, calls>>

(***************************************************************************)
(* The identity endpoint answers the leader of the token flight.           *)
(***************************************************************************)
\* Variant with a mistake: a failed token fetch ends the attempt like a
\* rate limit, and the loop goes on.
TokenResponse_retries(t, r) ==
    /\ pc[t] = "tokFetch"
    /\ LET out == token_outcome(r)
           n == end_token_flight(cur, out)
       IN  IF out.k = "ok"
           THEN /\ token_cache' = [val |-> out.tok, at |-> now]
                /\ Finish(check_throttle([n EXCEPT !.tok[t] = out.tok], t))
           ELSE /\ UNCHANGED token_cache
                /\ Finish(next_attempt(n, t))
    /\ UNCHANGED <<now, secrets, cLink, score_cache, calls>>

TokenResponse(t, r) ==
    /\ pc[t] = "tokFetch"
    /\ LET out == token_outcome(r)
           n == end_token_flight(cur, out)
       IN  IF out.k = "ok"
           THEN /\ token_cache' = [val |-> out.tok, at |-> now]
                /\ Finish(check_throttle([n EXCEPT !.tok[t] = out.tok], t))
           ELSE /\ UNCHANGED token_cache
                /\ Finish(end_score_flight(n, t, Err("token")))
    /\ UNCHANGED <<now, secrets, cLink, score_cache, calls>>

(***************************************************************************)
(* load_article_score, lines 67-75: the response arrives, the read guard   *)
(* is dropped, rate_limiting looks at the response, and either the attempt *)
(* ends with Err, or throttle() is called, or the body is read.            *)
(***************************************************************************)
ScoreResponse(t, r) ==
    /\ pc[t] = "inFlight"
    /\ LET out == load_outcome(r)
           n == [cur EXCEPT !.permit = drop_read(@, t)]
       IN  IF out.k = "err"
           THEN Finish(end_score_flight(n, t, Err(out.e)))
           ELSE IF out.k = "retry"
           THEN Finish(throttle(n, t, out.v))
           ELSE Finish([n EXCEPT !.pc[t] = "bodyWait", !.body[t] = r.body])
    /\ UNCHANGED <<now, secrets, cLink, token_cache, score_cache, calls>>

(***************************************************************************)
(* load_article_score, lines 75-91: the body has been read; the score of   *)
(* the first child is returned, and the cache stores it (feed.rs line 98). *)
(***************************************************************************)
\* Variant with a mistake: the cache stores the outcome of a failed fetch.
BodyDone_caches_failure(t) ==
    /\ pc[t] = "bodyWait"
    /\ LET out == parse_score(body[t]) IN
       /\ Finish(end_score_flight(cur, t, out))
       /\ score_cache' = [score_cache EXCEPT ![Link[t]] = Entry(out.v)]
    /\ UNCHANGED <<now, secrets, cLink, token_cache, calls>>

BodyDone(t) ==
    /\ pc[t] = "bodyWait"
    /\ LET out == parse_score(body[t]) IN
       /\ Finish(end_score_flight(cur, t, out))
       /\ score_cache' = IF out.k = "ok"
                         THEN [score_cache EXCEPT ![Link[t]] = Entry(out.v)]
                         ELSE score_cache
    /\ UNCHANGED <<now, secrets, cLink, token_cache, calls>>

(***************************************************************************)
(* throttle, lines 135-136: the sleep is over and the write guard is       *)
(* dropped; load_article_score returns Ok(None) and the loop goes on.      *)
(***************************************************************************)
SleepDone(t) ==
    /\ pc[t] = "sleep"
    /\ now >= wakeAt[t]
    /\ Finish(next_attempt([cur EXCEPT !.permit = drop_write(@, t)], t))
    /\ UNCHANGED <<now, secrets, cLink, token_cache, score_cache, calls>>

(***************************************************************************)
(* throttle, line 135, with a negative throttle_time: from_secs_f64        *)
(* panics.  The panic unwinds the task that serves the feed request: the   *)
(* write guard and every future of its feed_filter call are dropped.       *)
(***************************************************************************)
Panic(t) ==
    /\ pc[t] = "panic"
    /\ Apply(cur, {s \in TasksOf(FeedOf(t)) : Live(pc[s])})
    /\ feedPc' = [feedPc EXCEPT ![FeedOf(t)] = "done"]
    /\ feedRes' = [feedRes EXCEPT ![FeedOf(t)] = "panic"]
    /\ UNCHANGED <<now, secrets, cLink, token_cache, score_cache, calls>>

\* Time passes.
Tick(dt) ==
    /\ now' = now + dt
    /\ UNCHANGED <<secrets, cLink, feedPc, feedRes, futureVars, token_cache, score_cache,
                   calls>>

Sleeping == \E t \in Tasks : pc[t] = "sleep" /\ now < wakeAt[t]

(***************************************************************************)
(* Two responses that load_article_score treats alike (the same Err, the   *)
(* same throttle wait, or the same body to read) lead to the same state.   *)
(* Where the responses are not kept as history, one response of each kind  *)
(* is drawn.                                                               *)
(***************************************************************************)
SameOutcome(q, r) ==
    /\ load_outcome(q) = load_outcome(r)
    /\ load_outcome(r).k = "body" => q.body = r.body

ScoreOutcomes ==
    {r \in ScoreResponses : r = CHOOSE q \in ScoreResponses : SameOutcome(q, r)}

(***************************************************************************)
(* Spec: two feed_filter calls in parallel, one with two entries and one   *)
(* with an entry that has the link of one of them.  The history of the     *)
(* responses is not kept.                                                  *)
(***************************************************************************)
Quiet == UNCHANGED <<hist, idResp, feedResp, prev, closeAt>>

Next ==
    \/ \E f \in Feeds : feedPc[f] = "idle" /\ FeedFilter(f) /\ Quiet
    \/ \E f \in Feeds, r \in FeedResponses : FetchFeedDone(f, r) /\ Quiet
    \/ \E t \in Tasks : ScoreRetry(t) /\ Quiet
    \/ \E t \in Tasks : ScoreWake(t) /\ Quiet
    \/ \E t \in Tasks : TokenWake(t) /\ Quiet
    \/ \E t \in Tasks, r \in IdResponses : TokenResponse(t, r) /\ Quiet
    \/ \E t \in Tasks, r \in ScoreOutcomes : ScoreResponse(t, r) /\ Quiet
    \/ \E t \in Tasks : BodyDone(t) /\ Quiet
    \/ \E t \in Tasks : SleepDone(t) /\ Quiet
    \/ \E t \in Tasks : Panic(t) /\ Quiet
    \/ now < MaxTime /\ Sleeping /\ Tick(1) /\ Quiet

Spec == Init /\ [][Next]_vars

(***************************************************************************)
(* SpecOne: one feed_filter call for the feed with one entry, that is one  *)
(* get_article_score call on its own.  The history of the responses it     *)
(* receives is kept, and the answer of the feed host.                      *)
(***************************************************************************)
OneFeed == "f2"
One == "c"

\* The first feed is never requested, so the entry shares no link.
InitOne == Init /\ cLink = "k3"

NextOne ==
    \/ feedPc[OneFeed] = "idle" /\ FeedFilter(OneFeed) /\ Quiet
    \/ \E r \in FeedResponses :
         FetchFeedDone(OneFeed, r) /\ feedResp' = r
                                   /\ UNCHANGED <<hist, idResp, prev, closeAt>>
    \/ \E r \in IdResponses :
         TokenResponse(One, r) /\ idResp' = r
                               /\ UNCHANGED <<hist, feedResp, prev, closeAt>>
    \/ \E r \in ScoreResponses :
         ScoreResponse(One, r) /\ hist' = Append(hist, Seen(r))
                               /\ UNCHANGED <<idResp, feedResp, prev, closeAt>>
    \/ BodyDone(One) /\ Quiet
    \/ SleepDone(One) /\ Quiet
    \/ Panic(One) /\ Quiet
    \/ now < MaxTime /\ Sleeping /\ Tick(1) /\ Quiet

SpecOne == InitOne /\ [][NextOne]_vars

(***************************************************************************)
(* SpecTTL: the feed with one entry is requested again and again while     *)
(* hours pass, so that the entries of both caches expire: time passes by   *)
(* the second in the first seconds of an hour, and by the hour.  The       *)
(* latest answer of the identity endpoint is kept, and the result of the   *)
(* call before: whether its get_score ended in error (prev).               *)
(***************************************************************************)
MaxCalls == 2
MaxHours == 4

NextTTL ==
    \/ calls < MaxCalls /\ FeedFilter(OneFeed) /\ prev' = (res[One].k = "err")
                         /\ UNCHANGED <<hist, idResp, feedResp, closeAt>>
    \/ \E r \in FeedResponses : FetchFeedDone(OneFeed, r) /\ Quiet
    \/ \E r \in IdResponses :
         TokenResponse(One, r) /\ idResp' = r
                               /\ UNCHANGED <<hist, feedResp, prev, closeAt>>
    \/ \E r \in ScoreOutcomes : ScoreResponse(One, r) /\ Quiet
    \/ BodyDone(One) /\ Quiet
    \/ SleepDone(One) /\ Quiet
    \/ Panic(One) /\ Quiet
    \/ now % ScoreTTL < MaxTime /\ Sleeping /\ Tick(1) /\ Quiet
    \/ now + ScoreTTL <= MaxHours * ScoreTTL /\ Tick(ScoreTTL) /\ Quiet

SpecTTL == InitOne /\ [][NextTTL]_vars

(***************************************************************************)
(* SpecHalf: like SpecTTL, with time passing by the half hour, so that a   *)
(* call finds an entry of the score cache that is half an hour old, and a  *)
(* later one finds it expired.  No history of responses is kept.           *)
(***************************************************************************)
HalfTTL == ScoreTTL \div 2

NextHalf ==
    \/ calls < MaxCalls /\ FeedFilter(OneFeed) /\ Quiet
    \/ \E r \in FeedResponses : FetchFeedDone(OneFeed, r) /\ Quiet
    \/ \E r \in IdResponses : TokenResponse(One, r) /\ Quiet
    \/ \E r \in ScoreOutcomes : ScoreResponse(One, r) /\ Quiet
    \/ BodyDone(One) /\ Quiet
    \/ SleepDone(One) /\ Quiet
    \/ Panic(One) /\ Quiet
    \/ now % HalfTTL < MaxTime /\ Sleeping /\ Tick(1) /\ Quiet
    \/ now + HalfTTL <= MaxHours * HalfTTL /\ Tick(HalfTTL) /\ Quiet

SpecHalf == InitOne /\ [][NextHalf]_vars

(***************************************************************************)
(* SpecFeed: one feed_filter call for the feed with three entries, two     *)
(* with different links and one without a link: the fan-out of one call    *)
(* on its own.  The instant of each pending throttle() call is kept.       *)
(***************************************************************************)
FanFeed == "f1"

\* A future that is in throttle() keeps the instant of its call.
InThrottle(p) == p \in {"writeWait", "sleep"}
Closers ==
    /\ closeAt' = [t \in Tasks |->
                     IF ~InThrottle(pc'[t]) THEN 0
                     ELSE IF InThrottle(pc[t]) THEN closeAt[t] ELSE now]
    /\ UNCHANGED <<hist, idResp, feedResp, prev>>

NextFeed ==
    \/ feedPc[FanFeed] = "idle" /\ FeedFilter(FanFeed) /\ Closers
    \/ \E r \in FeedResponses : FetchFeedDone(FanFeed, r) /\ Closers
    \/ \E t \in TasksOf(FanFeed) : TokenWake(t) /\ Closers
    \/ \E t \in TasksOf(FanFeed), r \in IdResponses : TokenResponse(t, r) /\ Closers
    \/ \E t \in TasksOf(FanFeed), r \in ScoreOutcomes : ScoreResponse(t, r) /\ Closers
    \/ \E t \in TasksOf(FanFeed) : BodyDone(t) /\ Closers
    \/ \E t \in TasksOf(FanFeed) : SleepDone(t) /\ Closers
    \/ \E t \in TasksOf(FanFeed) : Panic(t) /\ Closers
    \/ now < MaxTime /\ Sleeping /\ Tick(1) /\ Closers

SpecFeed == InitOne /\ [][NextFeed]_vars

(***************************************************************************)
(* SpecFair: the call of SpecFeed with the clock left free, under the      *)
(* assumptions of a fair run: every request is answered, every future      *)
(* that can go on is polled, and time passes while a future sleeps.  Each  *)
(* step of the call makes progress (an attempt, a wait or a sleep ends, or *)
(* the clock moves towards the end of a sleep), so weak fairness of the    *)
(* next-state action states them all: a run stops only when nothing is     *)
(* left to do.                                                             *)
(***************************************************************************)
NextFair ==
    \/ feedPc[FanFeed] = "idle" /\ FeedFilter(FanFeed) /\ Closers
    \/ \E r \in FeedResponses : FetchFeedDone(FanFeed, r) /\ Closers
    \/ \E t \in TasksOf(FanFeed) : TokenWake(t) /\ Closers
    \/ \E t \in TasksOf(FanFeed), r \in IdResponses : TokenResponse(t, r) /\ Closers
    \/ \E t \in TasksOf(FanFeed), r \in ScoreOutcomes : ScoreResponse(t, r) /\ Closers
    \/ \E t \in TasksOf(FanFeed) : BodyDone(t) /\ Closers
    \/ \E t \in TasksOf(FanFeed) : SleepDone(t) /\ Closers
    \/ \E t \in TasksOf(FanFeed) : Panic(t) /\ Closers
    \/ Sleeping /\ Tick(1) /\ Closers

SpecFair == InitOne /\ [][NextFair]_vars /\ WF_vars(NextFair)

\* Under Spec and SpecOne the clock stays within MaxTime.
TypeOK ==
    /\ now \in 0..MaxTime
    /\ \A t \in Tasks : attempt[t] \in 0..MaxAttempts

\* The RwLock never has a writer together with a reader, and a future that
\* waits on a token flight whose leader is dropped does not occur in Spec.
LockOK ==
    /\ permit.writer # None => permit.readers = {}
    /\ \A t \in Tasks : pc[t] # "tokRetry"

(***************************************************************************)
(* Vocabulary of the claims.                                               *)
(***************************************************************************)
\* check_throttle returns for t in this step: its score request starts.
Starts(t) == pc[t] # "inFlight" /\ pc'[t] = "inFlight"

\* t is in the lock: it holds a guard or waits for one.
InLock(p, t) ==
    \/ t \in p.readers
    \/ p.writer = t
    \/ \E i \in 1..Len(p.queue) : p.queue[i].t = t

Signals == {"hard", "soft"}
LastSeen == hist[Len(hist)]
AllBefore(C) == \A i \in 1..(Len(hist) - 1) : hist[i].c \in C
Running == {"writeWait", "sleep", "readWait", "inFlight"}

\* An unexpired token is cached: less than 4 hours have passed since the
\* fetch that stored it.
Fresh == token_cache.val # None /\ now - token_cache.at < 4 * 60 * 60

\* The observed lookup calls get_token in this step: the first attempt
\* starts, or a sleep ends and another attempt starts.
CallsGetToken ==
    /\ pc[One] \in {"idle", "sleep"}
    /\ \/ pc'[One] \in {"tokFetch", "readWait", "inFlight"}
       \/ pc'[One] = "done" /\ res'[One] = Err("token")
IdRequest == pc[One] # "tokFetch" /\ pc'[One] = "tokFetch"

\* The identity endpoint answers the observed lookup in this step.
IdAnswer == pc[One] = "tokFetch" /\ now' = now

(***************************************************************************)
(* C1. Throttle exclusivity: when a check_throttle returns, every caller   *)
(* that was sleeping in throttle() with the write guard has completed its  *)
(* sleep and has released the guard.                                       *)
(***************************************************************************)
C1_ThrottleExclusivity ==
    [][\A t, s \in Tasks :
         (Starts(t) /\ pc[s] = "sleep")
             => (now >= wakeAt[s] /\ permit'.writer # s)]_vars

(***************************************************************************)
(* C2. While the throttle is closed (a writer obtained the guard for a     *)
(* wait of d and acquisition time + d has not passed) no score request     *)
(* starts, also when a lookup is abandoned while it sleeps.                *)
(***************************************************************************)
C2_NoRequestWhileClosed ==
    [][\A t \in Tasks : Starts(t) => now >= deadline]_vars

(***************************************************************************)
(* C3 as stated. At most 3 score requests per call; another attempt only   *)
(* after a rate-limit signal; a transport failure, a non-success status    *)
(* (anything but 2xx) on a response without a signal, or a malformed body  *)
(* fails the call with that error and no further request.                  *)
(***************************************************************************)
C3_FailsOnNonSuccess ==
    /\ Len(hist) <= 3 /\ reqs[One] <= 3
    /\ AllBefore(Signals)
    /\ hist # <<>> =>
         /\ LastSeen.c = "transport"
              => pc[One] = "done" /\ res[One] = Err("transport")
                                  /\ reqs[One] = Len(hist)
         /\ LastSeen.c \in {"errstatus", "otherstatus"}
              => pc[One] = "done" /\ res[One] = Err("status")
                                  /\ reqs[One] = Len(hist)
         /\ LastSeen.c = "malformed"
              => /\ pc[One] \in {"bodyWait", "done"}
                 /\ reqs[One] = Len(hist)
                 /\ pc[One] = "done"
                      => res[One] \in {Err("deserialize"), Err("shape")}

(***************************************************************************)
(* C3 amended. The same, with "a client-error or server-error status       *)
(* (4xx, 5xx)" for "a non-success status": a response with another status  *)
(* outside 2xx is treated by its body like a success.                      *)
(***************************************************************************)
C3_FailsOnErrorStatus ==
    /\ Len(hist) <= 3 /\ reqs[One] <= 3
    /\ AllBefore(Signals)
    /\ hist # <<>> =>
         /\ LastSeen.c = "transport"
              => pc[One] = "done" /\ res[One] = Err("transport")
                                  /\ reqs[One] = Len(hist)
         /\ LastSeen.c = "errstatus"
              => pc[One] = "done" /\ res[One] = Err("status")
                                  /\ reqs[One] = Len(hist)
         /\ LastSeen.c = "malformed"
              => /\ pc[One] \in {"bodyWait", "done"}
                 /\ reqs[One] = Len(hist)
                 /\ pc[One] = "done"
                      => res[One] \in {Err("deserialize"), Err("shape")}
         /\ LastSeen.c = "otherstatus"
              => /\ pc[One] \in {"bodyWait", "done"}
                 /\ reqs[One] = Len(hist)
                 /\ pc[One] = "done"
                      => res[One] \in {Ok(LastSeen.v), Err("deserialize"),
                                       Err("shape")}

\* The second of two attempts got an error status: the call has failed with
\* attempts left.
C3_Witness ==
    /\ Len(hist) = 2 /\ hist[1].c \in Signals /\ hist[2].c = "errstatus"
    /\ pc[One] = "done" /\ res[One] = Err("status") /\ attempt[One] = 1

(***************************************************************************)
(* C4. Retry exhaustion: when every response carries a rate-limit signal,  *)
(* the call makes exactly 3 score requests, each followed by a throttle    *)
(* wait, then fails with the retries-exhausted error; there is no 4th      *)
(* request.                                                                *)
(***************************************************************************)
C4_RetryExhaustion ==
    /\ Len(hist) <= 3
    /\ (hist # <<>> /\ AllBefore(Signals) /\ LastSeen.c \in Signals) =>
         /\ reqs[One] \in {Len(hist), Len(hist) + 1}
         /\ Len(hist) < 3 => pc[One] \in Running
         /\ Len(hist) = 3 => /\ pc[One] \in {"writeWait", "sleep", "done"}
                             /\ reqs[One] = 3
         /\ pc[One] = "done" => /\ Len(hist) = 3
                                /\ attempt[One] = 3
                                /\ res[One] = Err("retries")

(***************************************************************************)
(* C5. Rate-limit retry: after k = 0, 1 or 2 hard signals (429 with        *)
(* Retry-After) the call goes on, and when response k+1 is a valid score   *)
(* response without a signal the call succeeds with that score after       *)
(* exactly k+1 score requests.                                             *)
(***************************************************************************)
C5_RateLimitRetry ==
    hist # <<>> =>
      /\ (AllBefore({"hard"}) /\ LastSeen.c = "hard" /\ Len(hist) < 3)
           => pc[One] \in Running
      /\ (AllBefore({"hard"}) /\ LastSeen.c = "valid")
           => /\ Len(hist) <= 3
              /\ reqs[One] = Len(hist)
              /\ pc[One] \in {"bodyWait", "done"}
              /\ pc[One] = "done" => res[One] = Ok(LastSeen.v)

\* With waits that Duration::from_secs_f64 accepts, both C4 and C5 hold.
ValidWaits == \A i \in 1..Len(hist) : hist[i].d >= 0
RetryWithValidWaits == ValidWaits => (C4_RetryExhaustion /\ C5_RateLimitRetry)

(***************************************************************************)
(* C6. Token single-flight: at most one request to the identity endpoint   *)
(* is in flight, it is in flight only while no unexpired token is cached,  *)
(* and every caller holds or receives the one token of the cache.          *)
(***************************************************************************)
C6_TokenSingleFlight ==
    /\ Cardinality({t \in Tasks : pc[t] = "tokFetch"}) <= 1
    /\ \A t \in Tasks : pc[t] = "tokFetch" => tokLeader = t /\ ~Fresh
    /\ \A t \in Tasks : pc[t] = "tokWait" => tokLeader \notin {None, t}
    /\ \A t \in Tasks : tok[t] # None => tok[t] = token_cache.val
    /\ \A t \in Tasks :
         (pc[t] = "tokWake" /\ inbox[t].k = "ok")
             => inbox[t].tok = token_cache.val

\* A caller that waited on the flight receives the token its leader holds.
C6_Witness ==
    \E t, u \in Tasks :
      /\ t # u
      /\ pc[u] = "tokWake" /\ inbox[u].k = "ok"
      /\ tok[t] = inbox[u].tok

(***************************************************************************)
(* C7 as stated. A get_token call sends a request to the identity endpoint *)
(* if and only if no unexpired token is cached; within the 4 hours after a *)
(* fetch the calls return the cached token without a request.              *)
(***************************************************************************)
C7_RequestIffNoToken ==
    [][/\ IdRequest => CallsGetToken
       /\ CallsGetToken => (IdRequest <=> ~Fresh)
       /\ (CallsGetToken /\ Fresh)
            => tok'[One] = token_cache.val /\ token_cache' = token_cache]_vars

(***************************************************************************)
(* C7 amended. A get_token call sends a request to the identity endpoint   *)
(* if and only if no unexpired token is cached and the four secrets are    *)
(* configured; within the 4 hours after a fetch the calls return the       *)
(* cached token without a request, and the first call after them sends     *)
(* one request.                                                            *)
(***************************************************************************)
C7_RequestIffNoTokenAndSecrets ==
    [][/\ IdRequest => CallsGetToken
       /\ CallsGetToken => (IdRequest <=> (~Fresh /\ secrets))
       /\ (CallsGetToken /\ Fresh)
            => tok'[One] = token_cache.val /\ token_cache' = token_cache]_vars

\* A token fetched at 0 has expired and the call after that has sent a new
\* request.
C7_Witness ==
    /\ token_cache.val # None /\ now >= token_cache.at + 4 * 60 * 60
    /\ pc[One] = "tokFetch" /\ calls = 2

(***************************************************************************)
(* C8. A token failure is fatal and is not retried: when the fetch of the  *)
(* token fails, in whatever attempt, the lookup fails at once with that    *)
(* error, is not in the throttle, sends no score request, makes no further *)
(* attempt, and the token slot stays empty.                                *)
(***************************************************************************)
C8_TokenFailureFatal ==
    [][/\ (IdAnswer /\ (idResp'.transport \/ idResp'.body = None))
            => /\ pc'[One] = "done" /\ res'[One] = Err("token")
               /\ feedPc'[OneFeed] = "done" /\ feedRes'[OneFeed] = "err"
               /\ reqs'[One] = reqs[One] /\ attempt'[One] = attempt[One]
               /\ ~InLock(permit', One)
               /\ token_cache' = token_cache /\ ~Fresh
       /\ (CallsGetToken /\ ~Fresh /\ ~secrets)
            => /\ pc'[One] = "done" /\ res'[One] = Err("token")
               /\ reqs'[One] = reqs[One] /\ ~InLock(permit', One)
               /\ token_cache' = token_cache
       /\ (pc[One] = "done" /\ res[One] = Err("token") /\ calls' = calls)
            => pc'[One] = "done" /\ reqs'[One] = reqs[One]]_vars

\* The token expired during a throttle wait and its fetch failed at the
\* start of the second attempt.
C8_Witness ==
    /\ pc[One] = "done" /\ res[One] = Err("token")
    /\ attempt[One] = 1 /\ reqs[One] = 1
    /\ idResp.body = None /\ ~idResp.transport

(***************************************************************************)
(* C9. get_token fails whenever the identity endpoint answers with a       *)
(* non-success status or with a body that is no token response, and then   *)
(* no token is returned or cached.                                         *)
(***************************************************************************)
C9_FailsOnStatusOrBody ==
    [][(IdAnswer /\ (\/ idResp'.transport
                     \/ ~is_success(idResp'.status)
                     \/ idResp'.body = None))
          => /\ res'[One] = Err("token")
             /\ tok'[One] = None
             /\ token_cache' = token_cache]_vars

(***************************************************************************)
(* C10. Score-cache single-flight: concurrent get_score calls for a key    *)
(* trigger one fetch: a call that waited on the flight of another call     *)
(* never runs a fetch of its own.                                          *)
(***************************************************************************)
C10_ScoreSingleFlight ==
    \A t \in Tasks : joined[t] => scoreLeader[Link[t]] # t

(***************************************************************************)
(* C11. A failed score fetch is never cached: in the step in which         *)
(* get_score ends in error the cache is not written and holds no entry     *)
(* for the key; it holds none until the next get_score for that key, and   *)
(* that call runs the upstream fetch again: it leads a new flight of       *)
(* load_score, which asks for the token and sends the score request.       *)
(***************************************************************************)
\* The observed get_score is called in this step.
CallsGetScore == pc[One] = "idle" /\ pc'[One] # "idle"

\* load_score runs for the observed call: the call leads a flight, or the
\* flight has already ended with the error of get_token.
FetchRuns ==
    \/ scoreLeader'[Link[One]] = One /\ pc'[One] \in {"tokFetch", "readWait", "inFlight"}
    \/ pc'[One] = "done" /\ res'[One] = Err("token") /\ ~secrets

C11_FailureNotCached ==
    [][/\ (res[One].k # "err" /\ res'[One].k = "err")
            => /\ score_cache' = score_cache
               /\ ~ScoreCached(Link[One])'
       /\ (pc[One] \in {"idle", "done"} /\ res[One].k = "err")
            => ~ScoreCached(Link[One])
       /\ (pc[One] = "idle" /\ prev) => ~ScoreCached(Link[One])
       /\ (CallsGetScore /\ prev)
            => FetchRuns /\ res'[One].k # "ok"]_vars

\* The call before failed, and the new call has sent a score request.
C11_Witness ==
    /\ prev /\ calls = 2
    /\ pc[One] = "inFlight" /\ reqs[One] = 1
    /\ ~ScoreCached(Link[One])

(***************************************************************************)
(* C12. The canonical form of the link (the link without the prefix) is    *)
(* the key of the score cache: two lookups whose links have the same       *)
(* canonical form share one cache entry, so a get_score call that finds an *)
(* unexpired entry stored for a link of the same canonical form returns    *)
(* its score and runs no fetch.                                            *)
(***************************************************************************)
C12_CanonicalKey ==
    [][\A t \in Tasks :
         (/\ pc[t] = "idle" /\ pc'[t] \notin {"idle", "dropped"}
          /\ Link[t] # None
          /\ \E k \in Keys : /\ ScoreCached(k)
                             /\ replace_prefix(href[k]) = RequestPath(t))
           => pc'[t] = "done" /\ res'[t].k = "ok"]_vars

(***************************************************************************)
(* C13. All-or-nothing fan-out: in the step in which a lookup of a feed    *)
(* fails, feed_filter returns an error and the HTTP response is the        *)
(* generic server error, whatever the other lookups did before and         *)
(* whatever state they are in; feed_filter returns a document only when    *)
(* every lookup has returned Ok.                                           *)
(***************************************************************************)
\* The lookup t fails in this step: get_score returns Err.
Fails(t) == res[t].k # "err" /\ res'[t].k = "err"

C13_AllOrNothing ==
    [][\A f \in Feeds :
         /\ (\E t \in TasksOf(f) : Fails(t))
              => /\ feedPc'[f] = "done" /\ feedRes'[f] = "err"
                 /\ subreddit_rss(feedRes'[f]) = 500
         /\ (\E t \in TasksOf(f) : res'[t].k = "err")
              => feedRes'[f] = "err"
         /\ feedRes'[f] = "ok"
              => \A t \in TasksOf(f) : pc'[t] = "done" /\ res'[t].k = "ok"]_vars

\* The first lookup of a feed had returned its score when the last failed.
C13_Witness ==
    /\ res["a"].k = "ok" /\ res["a"].some
    /\ res["n"] = OkNone
    /\ res["b"].k = "err"
    /\ feedPc["f1"] = "done" /\ feedRes["f1"] = "err"

(***************************************************************************)
(* C14. Filter correctness: when all lookups of a feed succeed, the        *)
(* document holds exactly the entries whose score is present and is at     *)
(* least min_score (an entry whose score equals min_score is kept), in the *)
(* order they had in the feed, whatever the order in which the lookups     *)
(* completed.  The score of an entry is the one upstream returned for its  *)
(* link, which the cache holds.                                            *)
(***************************************************************************)
ScoreOf(t) == score_cache[Link[t]].val
Position(f, t) == CHOOSE i \in 1..Len(FeedEntries[f]) : FeedEntries[f][i] = t

C14_FilterCorrect ==
    \A f \in Feeds : feedRes[f] = "ok" =>
      \A min \in MinScores :
        \E out \in {feed_filter(f, min)} :
          /\ \A i \in 1..Len(out) : out[i] \in TasksOf(f)
          /\ \A t \in TasksOf(f) :
               (\E i \in 1..Len(out) : out[i] = t)
                 <=> (/\ Link[t] # None
                      /\ score_cache[Link[t]].some
                      /\ ScoreOf(t) >= min)
          /\ \A i, j \in 1..Len(out) :
               i < j => Position(f, out[i]) < Position(f, out[j])

\* The first entry has the score 3 and the last the score 10: with min_score
\* 3 both are kept, with 4 and with 10 only the last, with 11 none.
C14_Witness ==
    /\ feedRes["f1"] = "ok"
    /\ res["a"] = Ok(3) /\ res["b"] = Ok(10)
    /\ feed_filter("f1", 3) = <<"a", "b">>
    /\ feed_filter("f1", 4) = <<"b">>
    /\ feed_filter("f1", 10) = <<"b">>
    /\ feed_filter("f1", 11) = <<>>

(***************************************************************************)
(* C15. An entry without a link: its get_score looks nothing up in the     *)
(* cache, leads and joins no flight, asks for no token, is never in the    *)
(* throttle and sends no request; it returns at once with an absent score  *)
(* and never with an error; the entry is in no document, whatever          *)
(* min_score is (0 included); and the feed_filter call succeeds as soon as *)
(* the lookups of the entries that have a link have succeeded.             *)
(***************************************************************************)
NoLink == {t \in Tasks : Link[t] = None}

C15_EntryWithoutLink ==
    \A t \in NoLink :
      /\ pc[t] \in {"idle", "done"}
      /\ pc[t] = "done" => res[t] = OkNone
      /\ res[t].k # "err" /\ ~res[t].some
      /\ reqs[t] = 0 /\ attempt[t] = 0 /\ tok[t] = None /\ ~joined[t]
      /\ ~InLock(permit, t) /\ tokLeader # t
      /\ \A k \in Keys : scoreLeader[k] # t
      /\ feedRes[FeedOf(t)] = "ok"
           => \A min \in MinScores :
                \A i \in 1..Len(feed_filter(FeedOf(t), min)) :
                  feed_filter(FeedOf(t), min)[i] # t
      /\ (\A u \in TasksOf(FeedOf(t)) \ NoLink :
             pc[u] = "done" /\ res[u].k = "ok")
           => /\ feedPc[FeedOf(t)] = "done" /\ feedRes[FeedOf(t)] = "ok"
              /\ pc[t] = "done"

\* The feed with an entry without a link has been filtered with success, and
\* with min_score 0 its document holds the two other entries.
C15_Witness ==
    /\ feedRes["f1"] = "ok"
    /\ pc["n"] = "done" /\ res["n"] = OkNone
    /\ feed_filter("f1", 0) = <<"a", "b">>

(***************************************************************************)
(* C16. When the feed host answers the feed request with a client-error    *)
(* or server-error status, feed_filter fails in that step with the         *)
(* feed-fetch error: no lookup starts, no token is requested, the throttle *)
(* is not touched, the caches are neither read nor written, no score       *)
(* request is sent, and the call is over: the feed request is not sent     *)
(* again.                                                                  *)
(***************************************************************************)
\* The feed host answers the observed call in this step.
FeedAnswer == feedPc[OneFeed] = "fetching" /\ feedPc'[OneFeed] # "fetching"

FeedErrorStatus(r) ==
    ~r.transport /\ (is_client_error(r.status) \/ is_server_error(r.status))

C16_FeedErrorFatal ==
    [][(FeedAnswer /\ FeedErrorStatus(feedResp'))
          => /\ feedPc'[OneFeed] = "done" /\ feedRes'[OneFeed] = "err_feed"
             /\ subreddit_rss(feedRes'[OneFeed]) = 500
             /\ calls' = calls
             /\ pc' = pc /\ pc[One] = "idle" /\ res' = res
             /\ reqs' = reqs /\ permit' = permit
             /\ tokLeader' = tokLeader /\ scoreLeader' = scoreLeader
             /\ token_cache' = token_cache /\ score_cache' = score_cache]_vars

\* The feed host has answered 404 and the call has failed before any lookup.
C16_Witness ==
    /\ feedPc[OneFeed] = "done" /\ feedRes[OneFeed] = "err_feed"
    /\ ~feedResp.transport /\ feedResp.status = 404
    /\ pc[One] = "idle" /\ reqs[One] = 0 /\ token_cache = NoToken

(***************************************************************************)
(* C17. Soft warning: after a response with a status other than 429 and a  *)
(* remaining-quota header of at most 1, whatever its status, its body and  *)
(* its other headers, the caller closes the throttle and waits for the     *)
(* delay of the reset header, or 1 second without one; the attempt gives   *)
(* no score and no error and counts as one of the 3 attempts: the call     *)
(* goes on with the next attempt, or fails with the retries-exhausted      *)
(* error when it was the 3rd.                                              *)
(***************************************************************************)
SoftWait == IF LastSeen.reset.k = "num" THEN LastSeen.reset.v ELSE DefaultThrottle

C17_SoftWarning ==
    (hist # <<>> /\ LastSeen.low) =>
      \/ /\ pc[One] \in {"writeWait", "sleep"}
         /\ dur[One] = SoftWait
         /\ attempt[One] = Len(hist) - 1
      \/ /\ pc[One] \in {"readWait", "inFlight"}
         /\ attempt[One] = Len(hist) /\ Len(hist) < MaxAttempts
      \/ /\ pc[One] = "done" /\ res[One] = Err("retries")
         /\ attempt[One] = MaxAttempts /\ Len(hist) = MaxAttempts

\* With well-formed headers and a delay that is not negative, C17 holds.
SoftWellFormed ==
    \A i \in 1..Len(hist) : hist[i].c # "badheader" /\ hist[i].d >= 0
C17_WellFormedSoftWarning == SoftWellFormed => C17_SoftWarning

(***************************************************************************)
(* C18. Rate-limit signals do not surface: after a response with status    *)
(* 429, or with another status and a remaining quota of at most 1, the     *)
(* call is in the throttle or in its next attempt, or, when the response   *)
(* was the 3rd, it has failed with the retries-exhausted error; it has     *)
(* ended in no other way.                                                  *)
(***************************************************************************)
C18_SignalsNeverSurface ==
    (hist # <<>> /\ (LastSeen.s429 \/ LastSeen.low)) =>
      \/ pc[One] \in Running /\ Len(hist) <= MaxAttempts
      \/ /\ pc[One] = "done" /\ res[One] = Err("retries")
         /\ Len(hist) = MaxAttempts

\* With a Retry-After header on every 429, well-formed headers and delays
\* that are not negative, C18 holds.
C18_WellFormedSignals ==
    (SoftWellFormed /\ \A i \in 1..Len(hist) : hist[i].c \in Signals)
        => C18_SignalsNeverSurface

(***************************************************************************)
(* C19. feed_filter waits for all its lookups: when the call has returned, *)
(* with a document or with an error, every lookup that had started to run *)
(* has completed with a result: none was abandoned part-way (in the        *)
(* throttle, in a request, in a flight), and none is still pending.        *)
(***************************************************************************)
C19_WaitsForAll ==
    \A f \in Feeds :
      feedRes[f] \in {"ok", "err"} =>
        \A t \in TasksOf(f) :
          pc[t] # "idle" => pc[t] = "done" /\ res[t].k \in {"ok", "err"}

\* On the success path C19 holds: a document is returned only when every
\* lookup is done.
C19_WaitsForAllOnSuccess ==
    \A f \in Feeds :
      feedRes[f] = "ok" => \A t \in TasksOf(f) : pc[t] = "done" /\ res[t].k = "ok"

(***************************************************************************)
(* C20. Racing closers: each closer computes a deadline, the instant of    *)
(* its throttle() call plus its wait.  While a closer keeps the gate       *)
(* closed, the gate is due to reopen not before the deadline of that       *)
(* closer and not after the latest deadline of the closers that are        *)
(* pending: the latest closer wins, and the waits of the closers do not    *)
(* add up.                                                                 *)
(***************************************************************************)
Pending == {t \in Tasks : InThrottle(pc[t])}
Deadline(t) == closeAt[t] + dur[t]

C20_LatestCloserWins ==
    \A t \in Tasks :
      pc[t] = "sleep" =>
        /\ wakeAt[t] >= Deadline(t)
        /\ \E u \in Pending : wakeAt[t] <= Deadline(u)

\* What the code does: a closer sleeps for its wait from the instant the
\* lock grants it the write guard, so that the gate never reopens before
\* the deadline of the closer that holds it.
C20_SleepFromGrant ==
    \A t \in Tasks :
      pc[t] = "sleep" => wakeAt[t] >= Deadline(t) /\ wakeAt[t] <= deadline

(***************************************************************************)
(* C21. A cached score is immutable for its TTL: while less than 1 hour    *)
(* has passed since the fetch that stored the entry of a key, every        *)
(* get_score call for the key returns the stored value at once, without a  *)
(* token request or a score request, and the entry is not written; the     *)
(* first call after the hour has elapsed runs a new fetch; and the entry   *)
(* is written only by a fetch that succeeds after the entry before it has  *)
(* expired, with the score of that fetch.                                  *)
(***************************************************************************)
ScoreFresh(k) == score_cache[k].some /\ now - score_cache[k].at < 60 * 60

C21_Served ==
    /\ ScoreFresh(Link[One]) /\ now - score_cache[Link[One]].at = HalfTTL
    /\ calls = 2 /\ pc[One] = "done"
    /\ res[One] = Ok(score_cache[Link[One]].val)

(***************************************************************************)
(* C22. The throttle cannot deadlock: in a fair run in which every request *)
(* is answered, every pending throttle() obtains the exclusive hold, every *)
(* sleep ends with the hold released, every blocked check_throttle()       *)
(* returns and its request is sent, and every lookup that runs ends with a *)
(* score or with an error.                                                 *)
(***************************************************************************)
C22_NoDeadlock ==
    \A t \in Tasks :
      /\ (pc[t] = "writeWait") ~> (permit.writer = t)
      /\ (pc[t] = "sleep") ~> (pc[t] \in Running /\ permit.writer # t)
      /\ (pc[t] = "readWait") ~> (pc[t] = "inFlight")
      /\ Live(pc[t]) ~> (pc[t] = "done" /\ res[t].k \in {"ok", "err"})

\* What holds of the code: no future stays in the lock or in a wait for
\* ever; every lookup that runs ends, with a result, dropped or in a panic.
C22_EveryLookupEnds ==
    \A t \in Tasks :
      /\ Live(pc[t]) ~> ~Live(pc[t])
      /\ InLock(permit, t) ~> ~InLock(permit, t)

====
